---- MODULE Spec2Model ----
(***************************************************************************)
(* Model of converter.py (video -> SRT-like ASCII-art caption file).       *)
(*                                                                         *)
(*   Spec       main() driving process_video(): the capture handle, the   *)
(*              buffered output file, the frame loop, the console.        *)
(*   SpecTS     format_timestamp applied to drawn millisecond counts.     *)
(*   SpecGlyph  pixels_to_ascii applied to drawn grayscale images.        *)
(*                                                                         *)
(* Python strings are TLA+ strings; Python floats that occur in the code   *)
(* (1000 / fps, total_seconds(), pixel * 12 / 255) are quotients of        *)
(* integers whose truncation is unaffected by binary rounding in the       *)
(* ranges modelled, so they are computed exactly on integers.              *)
(*                                                                         *)
(* The output file is the object open(output_path, 'w') returns: a text    *)
(* layer and a byte buffer in front of the file on disk.  f.write only     *)
(* raises when it pushes bytes to the disk; what is still buffered is      *)
(* pushed when the with-block closes f, and that close can raise.          *)
(***************************************************************************)
EXTENDS Integers, Sequences, FiniteSets, TLC

VARIABLES
    pc,               \* position of the program / of the pure-function harness
    cap_openable,     \* input: cv2.VideoCapture(video_path) can open the source
    fps,              \* input: value cap.get(cv2.CAP_PROP_FPS) reports
    nframes,          \* input: frames the source yields before the first failed read
    width,            \* input: args.width
    sink_ok,          \* input: open(output_path, 'w') succeeds
    fsize_limit,      \* input: {} or {n}: the n bytes the output file may hold at most
    file_before,      \* the output file as it was before the run
    out_file,         \* the output file on disk: [exists, content]
    sink_state,       \* "unopened", "open" or "closed": the handle f of the with-block
    written,          \* the chunks f.write accepted since f was opened
    io,               \* byte counts of f: [pending, buffered, disk, failed]
    cap_opened,       \* cap.isOpened() held after construction
    release_count,    \* number of cap.release() calls
    read_pos,         \* number of successful cap.read() calls
    frame_time_ms,    \* local of process_video
    frame_count,      \* local of process_video
    start_time,       \* local of process_video
    end_time,         \* local of process_video
    blocks,           \* history: the (index, start, end, frame) of each complete block written
    exception,        \* the exception in flight out of process_video, or "None"
    stdout,           \* console messages printed so far
    milliseconds,     \* SpecTS: argument of format_timestamp
    timestamp,        \* SpecTS: its result
    image,            \* SpecGlyph: argument of pixels_to_ascii (image.getdata())
    ascii_str         \* SpecGlyph: its result

vars == <<pc, cap_openable, fps, nframes, width, sink_ok, fsize_limit, file_before,
          out_file, sink_state, written, io, cap_opened, release_count, read_pos,
          frame_time_ms, frame_count, start_time, end_time, blocks, exception,
          stdout, milliseconds, timestamp, image, ascii_str>>

videoVars == <<cap_openable, fps, nframes, width, sink_ok, fsize_limit, file_before,
               out_file, sink_state, written, io, cap_opened, release_count,
               read_pos, frame_time_ms, frame_count, start_time, end_time, blocks,
               exception, stdout>>

inputVars == <<cap_openable, fps, nframes, width, sink_ok, fsize_limit, file_before>>

(***************************************************************************)
(* Bounds of the model and constants of the program and its runtime        *)
(***************************************************************************)
MaxFrames == 64        \* frames a source yields at most
MaxWidth == 2          \* small --width values 1..MaxWidth
MaxHours == 100        \* hours of the millisecond counts drawn in SpecTS
MaxPixels == 3         \* pixels of the images drawn in SpecGlyph
ProgressEvery == 30    \* line 119: progress message every 30 frames
DefaultWidth == 100    \* line 133: default of --width
ChunkSize == 8192      \* text layer of f: bytes it holds back at most
BufferSize == 4096     \* byte buffer of f (block size of the file system)

ASCII_CHARS == "$#H&@*+=-:.  "

\* Frame rates the source may report: 0 (unknown), common rates, and a rate
\* above 1000 frames per second.
FpsValues == {0, 10, 24, 60, 2000}

(***************************************************************************)
(* Python primitives                                                       *)
(***************************************************************************)
\* int(a / b) for a >= 0, b > 0: true division, then truncation
int_div(a, b) == a \div b

\* f"{n:0{w}d}" for n >= 0: decimal, zero-padded to at least w digits
RECURSIVE zero_pad(_, _)
zero_pad(s, w) == IF Len(s) >= w THEN s ELSE zero_pad("0" \o s, w)

fmt_d(n, w) == zero_pad(ToString(n), w)

(***************************************************************************)
(* format_timestamp (lines 11-21)                                          *)
(***************************************************************************)
\* timedelta(milliseconds=m), normalised to (days, seconds, microseconds)
timedelta(ms) ==
    [days |-> ms \div 86400000,
     seconds |-> (ms \div 1000) % 86400,
     microseconds |-> (ms % 1000) * 1000]

\* t.total_seconds(): whole seconds and the fraction in microseconds
total_seconds(t) == [whole |-> t.days * 86400 + t.seconds, micro |-> t.microseconds]

format_timestamp_wrapping(ms) ==
    LET t == timedelta(ms)
        hours == t.seconds \div 3600
        minutes == (t.seconds % 3600) \div 60
        seconds == t.seconds % 60
        millis == int_div(t.microseconds, 1000)
    IN  fmt_d(hours, 2) \o ":" \o fmt_d(minutes, 2) \o ":" \o fmt_d(seconds, 2)
            \o "," \o fmt_d(millis, 3)

format_timestamp(ms) ==
    LET t == timedelta(ms)
        ts == total_seconds(t)
        hours == ts.whole \div 3600              \* int(total_seconds // 3600)
        minutes == (ts.whole % 3600) \div 60     \* int((total_seconds % 3600) // 60)
        seconds == ts.whole % 60                 \* int(total_seconds % 60)
        millis == int_div(t.microseconds, 1000)  \* int(t.microseconds / 1000)
    IN  fmt_d(hours, 2) \o ":" \o fmt_d(minutes, 2) \o ":" \o fmt_d(seconds, 2)
            \o "," \o fmt_d(millis, 3)

(***************************************************************************)
(* pixels_to_ascii (lines 43-54)                                           *)
(***************************************************************************)
ramp_index_256(pixel) == int_div(pixel * (Len(ASCII_CHARS) - 1), 256)

\* line 52: index = int(pixel * (len(ASCII_CHARS) - 1) / 255)
ramp_index(pixel) == int_div(pixel * (Len(ASCII_CHARS) - 1), 255)

\* ASCII_CHARS[index], 0-based
ramp_char(index) == SubSeq(ASCII_CHARS, index + 1, index + 1)

\* lines 49-53: the characters the loop appends for pixels lo..hi, in the
\* pixels' order (halved recursively to keep the evaluation shallow)
RECURSIVE pixels_to_ascii_slice(_, _, _)
pixels_to_ascii_slice(pixels, lo, hi) ==
    IF lo > hi THEN ""
    ELSE IF lo = hi THEN ramp_char(ramp_index(pixels[lo]))
    ELSE LET mid == (lo + hi) \div 2
         IN  pixels_to_ascii_slice(pixels, lo, mid)
                 \o pixels_to_ascii_slice(pixels, mid + 1, hi)

pixels_to_ascii(pixels) == pixels_to_ascii_slice(pixels, 1, Len(pixels))

(***************************************************************************)
(* frame_to_ascii (lines 56-78).  A frame is modelled by the grayscale     *)
(* pixels it has after the calls into cv2 / PIL (lines 61-69): a row-major *)
(* sequence of intensities, `width` per row.                                *)
(***************************************************************************)
Min(a, b) == IF a < b THEN a ELSE b

\* lines 74-76: for i in range(0, len(ascii_str), width)
RECURSIVE split_rows(_, _, _)
split_rows(s, w, i) ==
    IF i >= Len(s) THEN ""
    ELSE SubSeq(s, i + 1, Min(i + w, Len(s))) \o "\n" \o split_rows(s, w, i + w)

frame_to_ascii(frame, w) == split_rows(pixels_to_ascii(frame), w, 0)

(***************************************************************************)
(* The file object f of line 94 (text layer, byte buffer, file on disk),   *)
(* by byte counts.  limit is {} or {n}: writing at or past byte n of the   *)
(* file fails (file size limit, full device).                              *)
(***************************************************************************)
NewIO == [pending |-> 0, buffered |-> 0, disk |-> 0, failed |-> FALSE]

Fits(n, limit) == \A l \in limit : n <= l

\* bytes of the file on disk once it has been filled up to the limit
Filled(f, limit) == IF limit = {} THEN f.disk ELSE CHOOSE l \in limit : TRUE

\* the byte buffer flushes: its bytes go to the disk, up to the limit
buffer_flush(f, limit) ==
    IF f.buffered = 0 THEN f
    ELSE IF Fits(f.disk + f.buffered, limit)
    THEN [f EXCEPT !.disk = @ + f.buffered, !.buffered = 0]
    ELSE [f EXCEPT !.disk = Filled(f, limit), !.failed = TRUE]

\* n bytes written to the byte buffer: kept when they fit in it; otherwise
\* the buffer is flushed and the bytes go to the disk until at most a
\* buffer's worth is left, which is kept
buffer_write(f, n, limit) ==
    IF n <= BufferSize - f.buffered THEN [f EXCEPT !.buffered = @ + n]
    ELSE LET g == buffer_flush(f, limit)
         IN  IF g.failed THEN g
             ELSE IF n <= BufferSize THEN [g EXCEPT !.buffered = n]
             ELSE IF Fits(g.disk + n, limit) THEN [g EXCEPT !.disk = @ + n]
             ELSE IF g.disk = Filled(g, limit) THEN [g EXCEPT !.failed = TRUE]
             ELSE LET rest == n - (Filled(g, limit) - g.disk)
                  IN  IF rest > BufferSize
                      THEN [g EXCEPT !.disk = Filled(g, limit), !.failed = TRUE]
                      ELSE [g EXCEPT !.disk = Filled(g, limit), !.buffered = rest]

\* the text layer hands its pending bytes to the byte buffer
text_flush(f, limit) ==
    IF f.pending = 0 THEN f
    ELSE buffer_write([f EXCEPT !.pending = 0], f.pending, limit)

\* f.write(s) with n = len(s) bytes: pending bytes that would grow past
\* ChunkSize are flushed first; the new bytes are then pending, and flushed
\* when they reach ChunkSize
text_write(f, n, limit) ==
    LET g == IF f.pending > 0 /\ f.pending + n > ChunkSize
             THEN text_flush(f, limit) ELSE f
    IN  IF g.failed THEN g
        ELSE LET h == [g EXCEPT !.pending = @ + n]
             IN  IF h.pending >= ChunkSize THEN text_flush(h, limit) ELSE h

\* f.write of the first j of the chunks, in order, stopping at a failure
RECURSIVE write_chunks(_, _, _, _)
write_chunks(f, chunks, j, limit) ==
    IF j = 0 THEN f
    ELSE LET g == write_chunks(f, chunks, j - 1, limit)
         IN  IF g.failed THEN g ELSE text_write(g, Len(chunks[j]), limit)

\* f.close() at the end of the with-block: everything still held goes to
\* the disk, up to the limit; it fails when not all of it got there
close_file(f, limit) ==
    LET total == f.disk + f.buffered + f.pending
    IN  IF ~f.failed /\ Fits(total, limit)
        THEN [f EXCEPT !.disk = total, !.buffered = 0, !.pending = 0]
        ELSE [f EXCEPT !.disk = Filled(f, limit), !.failed = TRUE]

\* number of bytes of chunks lo..hi
RECURSIVE byte_count(_, _, _)
byte_count(chunks, lo, hi) ==
    IF lo > hi THEN 0
    ELSE IF lo = hi THEN Len(chunks[lo])
    ELSE LET mid == (lo + hi) \div 2
         IN  byte_count(chunks, lo, mid) + byte_count(chunks, mid + 1, hi)

\* the first n bytes of the concatenation of chunks lo..hi, as chunks (the
\* last one cut where the bytes end)
RECURSIVE byte_prefix(_, _, _, _)
byte_prefix(chunks, n, lo, hi) ==
    IF lo > hi \/ n <= 0 THEN <<>>
    ELSE IF lo = hi
    THEN IF Len(chunks[lo]) <= n THEN <<chunks[lo]>> ELSE <<SubSeq(chunks[lo], 1, n)>>
    ELSE LET mid == (lo + hi) \div 2
             left == byte_count(chunks, lo, mid)
         IN  IF n <= left THEN byte_prefix(chunks, n, lo, mid)
             ELSE SubSeq(chunks, lo, mid) \o byte_prefix(chunks, n - left, mid + 1, hi)

\* the file on disk after f went from state f to state g with `stream` handed to it
disk_after(file, f, g, stream) ==
    IF g.disk = f.disk THEN file
    ELSE [file EXCEPT !.content = byte_prefix(stream, g.disk, 1, Len(stream))]

(***************************************************************************)
(* Inputs                                                                  *)
(***************************************************************************)
\* n pixels starting at intensity p0 and rising by step, modulo 256
Gradient(p0, step, n) == [i \in 1..n |-> (p0 + (i - 1) * step) % 256]

PixelSteps == {0, 1, 85, 128}

Images == {Gradient(p0, s, n) : p0 \in 0..255, s \in PixelSteps, n \in 0..MaxPixels}

\* The k-th frame of a source, for a grid width w: k % 3 rows of w pixels
TestFrame(k, w) == Gradient((k * 37) % 256, 85, w * (k % 3))

\* Lengths of the sources, values of --width and limits of the output file
FrameCounts == (0..2) \cup {ProgressEvery, MaxFrames}
Widths == (1..MaxWidth) \cup {DefaultWidth}
FsizeLimits == {{}, {0}, {5}, {4500}, {8400}}

TsMinutes == {0, 1, 30, 59}
TsMillis == {0, 1, 9, 10, 99, 100, 234, 999}

TsInputs ==
    {h * 3600000 + m * 60000 + s * 1000 + ms :
        h \in 0..MaxHours, m \in TsMinutes, s \in TsMinutes, ms \in TsMillis}

NoFile == [exists |-> FALSE, content |-> <<>>]
StaleFile == [exists |-> TRUE, content |-> <<"stale\n">>]

\* Values of the variables a specification does not use
IdleVideo ==
    /\ cap_openable = FALSE /\ fps = 0 /\ nframes = 0 /\ width = 1
    /\ sink_ok = FALSE /\ fsize_limit = {} /\ file_before = NoFile
    /\ out_file = NoFile /\ sink_state = "unopened" /\ written = <<>>
    /\ io = NewIO /\ cap_opened = FALSE /\ release_count = 0
    /\ read_pos = 0 /\ frame_time_ms = 0 /\ frame_count = 0
    /\ start_time = 0 /\ end_time = 0 /\ blocks = <<>>
    /\ exception = "None" /\ stdout = <<>>

IdleTS == milliseconds = 0 /\ timestamp = ""
IdleGlyph == image = <<>> /\ ascii_str = ""

(***************************************************************************)
(* SpecTS: format_timestamp                                                *)
(***************************************************************************)
InitTS ==
    /\ pc = "ts_call"
    /\ milliseconds \in TsInputs
    /\ timestamp = ""
    /\ IdleVideo /\ IdleGlyph

FormatTimestamp ==
    /\ pc = "ts_call"
    /\ timestamp' = format_timestamp(milliseconds)
    /\ pc' = "ts_done"
    /\ UNCHANGED <<milliseconds, image, ascii_str, videoVars>>

NextTS == FormatTimestamp

SpecTS == InitTS /\ [][NextTS]_vars

(***************************************************************************)
(* SpecGlyph: pixels_to_ascii                                              *)
(***************************************************************************)
InitGlyph ==
    /\ pc = "glyph_call"
    /\ image \in Images
    /\ ascii_str = ""
    /\ IdleVideo /\ IdleTS

PixelsToAscii ==
    /\ pc = "glyph_call"
    /\ ascii_str' = pixels_to_ascii(image)
    /\ pc' = "glyph_done"
    /\ UNCHANGED <<image, milliseconds, timestamp, videoVars>>

NextGlyph == PixelsToAscii

SpecGlyph == InitGlyph /\ [][NextGlyph]_vars

(***************************************************************************)
(* Spec: main() and process_video()                                        *)
(***************************************************************************)
\* Python's round(a / b) for a >= 0, b > 0: to nearest, ties to even
py_round(a, b) ==
    LET q == a \div b
        r == a % b
    IN  IF 2 * r < b THEN q
        ELSE IF 2 * r > b THEN q + 1
        ELSE IF q % 2 = 0 THEN q ELSE q + 1

frame_time_rounded(f) == py_round(1000, f)

\* line 91: frame_time_ms = int(1000 / fps), fps # 0
frame_time(f) == int_div(1000, f)

index_line_zero_based(count) == ToString(count) \o "\n"

\* line 103: f"{frame_count + 1}\n"
index_line(count) == ToString(count + 1) \o "\n"

\* line 106: start_time = frame_count * frame_time_ms
start_of(count, d) == count * d

end_of_drifting(count, d) == (count + 1) * (d + 1)

\* line 107: end_time = (frame_count + 1) * frame_time_ms
end_of(count, d) == (count + 1) * d

\* line 108: f"{format_timestamp(start_time)} --> {format_timestamp(end_time)}\n"
time_line(start, end) ==
    format_timestamp(start) \o " --> " \o format_timestamp(end) \o "\n"

\* lines 103-115: the four writes of one block, in order
block_chunks(count, d, ascii_art) ==
    <<index_line(count),
      time_line(start_of(count, d), end_of(count, d)),
      ascii_art,
      "\n">>

Message(kind, arg) == [kind |-> kind, arg |-> arg]

\* lines 119-120: progress message after the increment
with_progress(console, count) ==
    IF count % ProgressEvery = 0
    THEN Append(console, Message("progress", ToString(count)))
    ELSE console

Init ==
    /\ pc = "open_capture"
    /\ cap_openable \in BOOLEAN
    /\ fps \in FpsValues
    /\ width \in Widths
    /\ nframes \in FrameCounts
    /\ sink_ok \in BOOLEAN
    /\ fsize_limit \in FsizeLimits
    /\ file_before \in {NoFile, StaleFile}
    /\ out_file = file_before
    /\ sink_state = "unopened"
    /\ written = <<>>
    /\ io = NewIO
    /\ cap_opened = FALSE
    /\ release_count = 0
    /\ read_pos = 0
    /\ frame_time_ms = 0
    /\ frame_count = 0
    /\ start_time = 0
    /\ end_time = 0
    /\ blocks = <<>>
    /\ exception = "None"
    /\ stdout = <<>>
    /\ IdleTS /\ IdleGlyph

pureVars == <<milliseconds, timestamp, image, ascii_str>>

fileVars == <<out_file, sink_state, written, io>>

OpenCaptureUnchecked ==
    /\ pc = "open_capture"
    /\ cap_opened' = cap_openable
    /\ pc' = "get_fps"
    /\ UNCHANGED <<inputVars, fileVars, release_count, read_pos,
                   frame_time_ms, frame_count, start_time, end_time, blocks,
                   exception, stdout, pureVars>>

\* lines 85-87: open the source; raise ValueError when it is not opened
OpenCapture ==
    /\ pc = "open_capture"
    /\ cap_opened' = cap_openable
    /\ IF cap_openable
       THEN pc' = "get_fps" /\ UNCHANGED exception
       ELSE pc' = "raised" /\ exception' = "ValueError"
    /\ UNCHANGED <<inputVars, fileVars, release_count, read_pos,
                   frame_time_ms, frame_count, start_time, end_time, blocks,
                   stdout, pureVars>>

\* lines 90-91, outside the try: 1000 / fps raises ZeroDivisionError for
\* fps = 0 and the exception leaves process_video past the finally clause
ComputeFrameTime ==
    /\ pc = "get_fps"
    /\ IF fps = 0
       THEN pc' = "raised" /\ exception' = "ZeroDivisionError"
            /\ UNCHANGED frame_time_ms
       ELSE pc' = "open_sink" /\ frame_time_ms' = frame_time(fps)
            /\ UNCHANGED exception
    /\ UNCHANGED <<inputVars, fileVars, cap_opened, release_count,
                   read_pos, frame_count, start_time, end_time, blocks, stdout,
                   pureVars>>

\* lines 93-95: open(output_path, 'w') creates or truncates the file, or
\* raises OSError inside the try
OpenSink ==
    /\ pc = "open_sink"
    /\ IF sink_ok
       THEN /\ out_file' = [exists |-> TRUE, content |-> <<>>]
            /\ sink_state' = "open"
            /\ pc' = "loop"
            /\ frame_count' = 0
            /\ UNCHANGED exception
       ELSE /\ exception' = "OSError"
            /\ pc' = "finally"
            /\ UNCHANGED <<out_file, sink_state, frame_count>>
    /\ UNCHANGED <<inputVars, written, io, cap_opened, release_count, read_pos,
                   frame_time_ms, start_time, end_time, blocks, stdout, pureVars>>

\* lines 98-100 and the end of the with-block: cap.read() fails, the loop
\* breaks and f is closed; the close pushes what f still holds to the disk
\* and raises OSError when that fails
ReadEnd ==
    /\ pc = "loop"
    /\ read_pos >= nframes
    /\ LET closed == close_file(io, fsize_limit)
       IN  /\ io' = closed
           /\ out_file' = disk_after(out_file, io, closed, written)
           /\ exception' = IF closed.failed THEN "OSError" ELSE "None"
    /\ sink_state' = "closed"
    /\ pc' = "finally"
    /\ UNCHANGED <<inputVars, written, cap_opened, release_count, read_pos,
                   frame_time_ms, frame_count, start_time, end_time, blocks,
                   stdout, pureVars>>

\* lines 98-120: one full iteration: read a frame, write its block (all four
\* writes are accepted), count it
ProcessFrame ==
    /\ pc = "loop"
    /\ read_pos < nframes
    /\ LET ascii_art == frame_to_ascii(TestFrame(read_pos + 1, width), width)
           chunks == block_chunks(frame_count, frame_time_ms, ascii_art)
           after == write_chunks(io, chunks, 4, fsize_limit)
       IN  /\ ~after.failed
           /\ read_pos' = read_pos + 1
           /\ start_time' = start_of(frame_count, frame_time_ms)
           /\ end_time' = end_of(frame_count, frame_time_ms)
           /\ written' = written \o chunks
           /\ io' = after
           /\ out_file' = disk_after(out_file, io, after, written \o chunks)
           /\ blocks' = Append(blocks,
                  [index |-> frame_count + 1,
                   start |-> start_of(frame_count, frame_time_ms),
                   end |-> end_of(frame_count, frame_time_ms),
                   frame |-> read_pos + 1])
           /\ frame_count' = frame_count + 1
           /\ stdout' = with_progress(stdout, frame_count + 1)
    /\ UNCHANGED <<pc, inputVars, sink_state, cap_opened, release_count,
                   frame_time_ms, exception, pureVars>>

\* line 111: frame_to_ascii raises after the index and time lines were
\* accepted; the with-block closes f, and a failing close replaces the
\* exception by OSError
RenderError ==
    /\ pc = "loop"
    /\ read_pos < nframes
    /\ LET ascii_art == frame_to_ascii(TestFrame(read_pos + 1, width), width)
           chunks == block_chunks(frame_count, frame_time_ms, ascii_art)
           after == write_chunks(io, chunks, 2, fsize_limit)
           closed == close_file(after, fsize_limit)
           stream == written \o SubSeq(chunks, 1, 2)
       IN  /\ ~after.failed
           /\ read_pos' = read_pos + 1
           /\ start_time' = start_of(frame_count, frame_time_ms)
           /\ end_time' = end_of(frame_count, frame_time_ms)
           /\ written' = stream
           /\ io' = closed
           /\ out_file' = disk_after(out_file, io, closed, stream)
           /\ exception' = IF closed.failed THEN "OSError" ELSE "RenderError"
    /\ sink_state' = "closed"
    /\ pc' = "finally"
    /\ UNCHANGED <<inputVars, cap_opened, release_count, frame_time_ms,
                   frame_count, blocks, stdout, pureVars>>

\* lines 103, 108, 112, 115: the j-th write of the iteration raises OSError
\* because f could not push its bytes to the disk; the writes before it were
\* accepted; the with-block closes f, which fails again
WriteError ==
    /\ pc = "loop"
    /\ read_pos < nframes
    /\ LET ascii_art == frame_to_ascii(TestFrame(read_pos + 1, width), width)
           chunks == block_chunks(frame_count, frame_time_ms, ascii_art)
       IN  \E j \in 1..4 :
             LET before == write_chunks(io, chunks, j - 1, fsize_limit)
                 after == write_chunks(io, chunks, j, fsize_limit)
                 closed == close_file(after, fsize_limit)
             IN  /\ ~before.failed /\ after.failed
                 /\ read_pos' = read_pos + 1
                 /\ IF j >= 2
                    THEN /\ start_time' = start_of(frame_count, frame_time_ms)
                         /\ end_time' = end_of(frame_count, frame_time_ms)
                    ELSE UNCHANGED <<start_time, end_time>>
                 /\ written' = written \o SubSeq(chunks, 1, j - 1)
                 /\ io' = closed
                 /\ out_file' = disk_after(out_file, io, closed,
                                           written \o SubSeq(chunks, 1, j))
    /\ exception' = "OSError"
    /\ sink_state' = "closed"
    /\ pc' = "finally"
    /\ UNCHANGED <<inputVars, cap_opened, release_count, frame_time_ms,
                   frame_count, blocks, stdout, pureVars>>

\* lines 122-124: finally: cap.release(), then return or re-raise
Finally ==
    /\ pc = "finally"
    /\ release_count' = release_count + 1
    /\ pc' = IF exception = "None" THEN "returned" ELSE "raised"
    /\ UNCHANGED <<inputVars, fileVars, cap_opened, read_pos,
                   frame_time_ms, frame_count, start_time, end_time, blocks,
                   exception, stdout, pureVars>>

\* line 142: process_video returned, print the completion message
MainCompleted ==
    /\ pc = "returned"
    /\ stdout' = Append(stdout, Message("completed", "output_path"))
    /\ pc' = "exit"
    /\ UNCHANGED <<inputVars, fileVars, cap_opened, release_count,
                   read_pos, frame_time_ms, frame_count, start_time, end_time,
                   blocks, exception, pureVars>>

MainExceptThenCompleted ==
    /\ pc = "raised"
    /\ stdout' = stdout \o <<Message("error", exception),
                             Message("completed", "output_path")>>
    /\ pc' = "exit"
    /\ UNCHANGED <<inputVars, fileVars, cap_opened, release_count,
                   read_pos, frame_time_ms, frame_count, start_time, end_time,
                   blocks, exception, pureVars>>

\* lines 143-144: except Exception as e: print the error message
MainExcept ==
    /\ pc = "raised"
    /\ stdout' = Append(stdout, Message("error", exception))
    /\ pc' = "exit"
    /\ UNCHANGED <<inputVars, fileVars, cap_opened, release_count,
                   read_pos, frame_time_ms, frame_count, start_time, end_time,
                   blocks, exception, pureVars>>

Next ==
    \/ OpenCapture
    \/ ComputeFrameTime
    \/ OpenSink
    \/ ReadEnd
    \/ ProcessFrame
    \/ RenderError
    \/ WriteError
    \/ Finally
    \/ MainCompleted
    \/ MainExcept

Spec == Init /\ [][Next]_vars

(***************************************************************************)
(* Properties                                                              *)
(***************************************************************************)
content == out_file.content

\* process_video has been left, by return or by exception
Exited == pc \in {"returned", "raised", "exit"}

\* frame_time_ms has been assigned (line 91 completed)
FrameTimeAssigned == pc \in {"open_sink", "loop", "finally"} \/ sink_state # "unopened"

CountKind(kind) == Cardinality({i \in 1..Len(stdout) : stdout[i].kind = kind})

\* C1: once the sink is open, f has accepted exactly frame_count complete
\* blocks, block k carries index line k and belongs to the k-th decoded frame,
\* and the newest block carries the rendering of the frame just decoded (the
\* accepted chunks only grow); at the loop head nothing but complete blocks
\* has been written; and a run that ends normally has one block per frame of
\* the source, all of them in the file on disk.
C1_BlocksMatchFrameCount ==
    sink_state # "unopened" =>
        /\ Len(blocks) = frame_count
        /\ Len(written) \div 4 = frame_count
        /\ pc = "loop" => Len(written) = 4 * frame_count /\ read_pos = frame_count
        /\ \A k \in 1..frame_count :
             /\ blocks[k].index = k
             /\ blocks[k].frame = k
             /\ written[4 * (k - 1) + 1] = ToString(k) \o "\n"
             /\ written[4 * k] = "\n"
        /\ frame_count > 0 =>
             written[4 * frame_count - 1] =
                 frame_to_ascii(TestFrame(frame_count, width), width)
        /\ (Exited /\ exception = "None") =>
             frame_count = nframes /\ content = written

C1_Witness ==
    /\ pc = "exit" /\ exception = "None" /\ width = DefaultWidth
    /\ frame_count > ProgressEvery /\ Len(content) = 4 * frame_count

\* C2: block k (0-based index i = k - 1) has start = i * d and end = (i + 1) * d,
\* its time line in the file shows exactly these, and each block ends where
\* the next one starts.
C2_ContiguousIntervals ==
    /\ \A k \in 1..Len(blocks) :
         /\ blocks[k].start = (k - 1) * frame_time_ms
         /\ blocks[k].end = k * frame_time_ms
         /\ written[4 * (k - 1) + 2] =
                format_timestamp((k - 1) * frame_time_ms) \o " --> "
                    \o format_timestamp(k * frame_time_ms) \o "\n"
    /\ \A k \in 1..(Len(blocks) - 1) : blocks[k].end = blocks[k + 1].start

C2_Witness == Len(blocks) >= 3 /\ frame_time_ms = 41 /\ blocks[3].start = 82

\* C3 as stated: the frame duration is round(1000 / fps).
C3_FrameTimeIsRounded ==
    FrameTimeAssigned => frame_time_ms = py_round(1000, fps)

\* C3 amended: the frame duration is 1000 / fps truncated to an integer, i.e.
\* the largest d with d * fps <= 1000, and every block spans exactly d.
C3_FrameTimeIsTruncated ==
    FrameTimeAssigned =>
        /\ fps > 0
        /\ frame_time_ms * fps <= 1000
        /\ 1000 < (frame_time_ms + 1) * fps
        /\ \A k \in 1..Len(blocks) : blocks[k].end - blocks[k].start = frame_time_ms

C3_Witness == pc = "loop" /\ fps = 24 /\ frame_time_ms = 41 /\ frame_count >= 1

\* C4 as stated: every block written has start >= 0 and end > start.
C4_EndAfterStart ==
    \A k \in 1..Len(blocks) : blocks[k].start >= 0 /\ blocks[k].end > blocks[k].start

\* C5 as stated: once the source was opened, every exit of process_video has
\* released it exactly once.
C5_ReleasedExactlyOnce ==
    (cap_opened /\ Exited) => release_count = 1

\* C6: when the source cannot be opened, process_video raises ValueError and
\* the output file is never opened: it is as it was before the run.
C6_OpenFailureLeavesSinkUntouched ==
    ~cap_openable =>
        /\ out_file = file_before
        /\ sink_state = "unopened" /\ written = <<>>
        /\ pc # "open_capture" => Exited /\ exception = "ValueError"

C6_Witness ==
    /\ ~cap_openable /\ sink_ok /\ pc = "exit"
    /\ file_before = StaleFile /\ out_file = StaleFile

\* C7 as stated: a source that opens and yields no frame ends the run normally
\* with an empty output file, whatever fps it reports.
C7_ZeroFramesNoError ==
    (cap_openable /\ sink_ok /\ nframes = 0 /\ pc = "exit") =>
        /\ exception = "None"
        /\ out_file = [exists |-> TRUE, content |-> <<>>]

\* C8: main prints the completion message iff process_video returned, one
\* error message naming the exception iff it raised, never both, and neither
\* before process_video is left.
C8_ExactlyOneFinalMessage ==
    /\ pc # "exit" => CountKind("completed") = 0 /\ CountKind("error") = 0
    /\ pc = "exit" =>
         /\ CountKind("completed") + CountKind("error") = 1
         /\ CountKind("completed") = 1 <=> exception = "None"
         /\ exception # "None" =>
                stdout[Len(stdout)] = [kind |-> "error", arg |-> exception]

C8_Witness ==
    /\ pc = "exit" /\ exception = "OSError" /\ frame_count = nframes
    /\ Len(stdout) = 2 /\ stdout[1].kind = "progress"

\* Decimal digits of n, at least two / three of them
TwoDigits(n) == IF n < 10 THEN "0" \o ToString(n) ELSE ToString(n)
ThreeDigits(n) == IF n < 100 THEN "0" \o TwoDigits(n) ELSE ToString(n)

\* C9: format_timestamp(m) is HH:MM:SS,mmm with HH = m div 3600000 (not
\* wrapped at 24), MM = (m div 60000) mod 60, SS = (m div 1000) mod 60 and
\* mmm = m mod 1000; the three examples of the specification hold.
C9_TimestampFormat ==
    pc = "ts_done" =>
        /\ timestamp =
             TwoDigits(milliseconds \div 3600000) \o ":"
                \o TwoDigits((milliseconds \div 60000) % 60) \o ":"
                \o TwoDigits((milliseconds \div 1000) % 60) \o ","
                \o ThreeDigits(milliseconds % 1000)
        /\ milliseconds = 0 => timestamp = "00:00:00,000"
        /\ milliseconds = 1234 => timestamp = "00:00:01,234"
        /\ milliseconds = 3661001 => timestamp = "01:01:01,001"

C9_Witness ==
    pc = "ts_done" /\ milliseconds = 90001234 /\ timestamp = "25:00:01,234"

\* C10: the ramp has 13 characters; the index chosen for each pixel p is
\* floor(p * 12 / 255), lies in 0..12, is 0 for p = 0 and 12 for p = 255; and
\* the result has one ramp character per pixel, in the pixels' order.
C10_RampIndexInRange ==
    /\ Len(ASCII_CHARS) = 13
    /\ \A i \in 1..Len(image) :
         LET p == image[i]
             idx == ramp_index(p)
         IN  /\ idx \in 0..(Len(ASCII_CHARS) - 1)
             /\ idx * 255 <= p * 12 /\ p * 12 < (idx + 1) * 255
             /\ p = 0 => idx = 0
             /\ p = 255 => idx = 12
    /\ pc = "glyph_done" =>
         /\ Len(ascii_str) = Len(image)
         /\ \A i \in 1..Len(image) :
              SubSeq(ascii_str, i, i) =
                  SubSeq(ASCII_CHARS, (image[i] * 12) \div 255 + 1,
                         (image[i] * 12) \div 255 + 1)

C10_Witness ==
    pc = "glyph_done" /\ image = <<255, 84, 169>> /\ ascii_str = " &="

====
